---- MODULE Spec2Model ----
(***************************************************************************)
(* The `import` command of the data-transfer CLI                           *)
(* (packages/core/strapi/lib/commands/transfer/import.js): option          *)
(* validation, inference of the local-file source options from the archive *)
(* name, configuration of the destination and of the engine rules, the     *)
(* three lifecycle handlers that send telemetry and record the exit code,  *)
(* the try/catch around engine.transfer() and the exit-code polling loop.  *)
(*                                                                         *)
(* The transfer engine and the two providers live in @strapi/data-transfer *)
(* and are not part of the inspected sources: their steps are modelled     *)
(* from the design document and are marked as such where they are defined. *)
(***************************************************************************)
EXTENDS Integers, Sequences, FiniteSets, TLC

\* ------------------------------------------------------------------ bounds

\* An archive path is built from at most this many parts (see Parts).
MaxPathParts == 5
\* The source yields at most this many records in one run.
MaxRecords == 2
\* Granularity, in milliseconds, with which the clock is observed.
TickMs == 25

\* ------------------------------------------------------- program constants

\* setTimeout(resolve, 50)
PollInterval == 50
\* waitForExitCode(5000)
MaxWait == 5000

\* JavaScript's undefined, for string-valued options.
Undefined == "undefined"

DEFAULT_VERSION_STRATEGY == "DEFAULT_VERSION_STRATEGY"
DEFAULT_SCHEMA_STRATEGY == "DEFAULT_SCHEMA_STRATEGY"
DEFAULT_CONFLICT_STRATEGY == "DEFAULT_CONFLICT_STRATEGY"

\* The content types of the model: one ordinary type and two internal ones.
Types == {"api::article", "admin::user", "admin::role"}

\* require('./utils').DEFAULT_IGNORED_CONTENT_TYPES: the internal types.
DEFAULT_IGNORED_CONTENT_TYPES == {"admin::user", "admin::role"}

\* ------------------------------------------------------------------- paths
\* A path is a sequence of one-character strings.

DOT == "."
SLASH == "/"
ENC == <<".", "e", "n", "c">>
GZ == <<".", "g", "z">>

Parts == {<<"x">>, <<".">>, <<"/">>, <<"e", "n", "c">>, <<"g", "z">>}

RECURSIVE PathsOf(_)
PathsOf(n) ==
    IF n = 0 THEN {<<>>}
    ELSE LET shorter == PathsOf(n - 1)
         IN  shorter \cup {p \o q : p \in shorter, q \in Parts}

Paths == PathsOf(MaxPathParts)

\* path without its trailing separators
RECURSIVE StripTrailingSlashes(_)
StripTrailingSlashes(p) ==
    IF Len(p) > 0 /\ p[Len(p)] = SLASH
    THEN StripTrailingSlashes(SubSeq(p, 1, Len(p) - 1))
    ELSE p

\* index of the last occurrence of character c in p at or before i, 0 if none
RECURSIVE LastIndexOf(_, _, _)
LastIndexOf(p, c, i) ==
    IF i = 0 THEN 0
    ELSE IF p[i] = c THEN i
    ELSE LastIndexOf(p, c, i - 1)

\* path.basename(p): the last segment, trailing separators ignored
Basename(p) ==
    LET q == StripTrailingSlashes(p)
        s == LastIndexOf(q, SLASH, Len(q))
    IN  SubSeq(q, s + 1, Len(q))

\* path.extname(p): from the last dot of the last segment to its end; empty
\* when there is no dot, when the last dot is the segment's first character,
\* and for the segment ".."
extname(p) ==
    LET b == Basename(p)
        d == LastIndexOf(b, DOT, Len(b))
    IN  IF d = 0 \/ d = 1 \/ b = <<DOT, DOT>>
        THEN <<>>
        ELSE SubSeq(b, d, Len(b))

\* path.parse(p).name: the last segment without its extension
parseName(p) ==
    LET b == Basename(p)
    IN  SubSeq(b, 1, Len(b) - Len(extname(p)))

\* ---------------------------------------------- getLocalFileSourceOptions

\* getLocalFileSourceOptions returning the peeled name as the path
getLocalFileSourceOptionsPeeledPath(o) ==
    LET encrypted == extname(o.file) = ENC
        file == IF encrypted THEN parseName(o.file) ELSE o.file
        compressed == extname(file) = GZ
        peeled == IF compressed THEN parseName(file) ELSE file
    IN  [ file |-> [path |-> peeled],
          compression |-> [enabled |-> compressed],
          encryption |-> IF encrypted
                         THEN [enabled |-> TRUE, key |-> o.key]
                         ELSE [enabled |-> FALSE, key |-> Undefined] ]

\* getLocalFileSourceOptions testing .gz on the path, not on the peeled name
getLocalFileSourceOptionsCompressionOnPath(o) ==
    LET encrypted == extname(o.file) = ENC
    IN  [ file |-> [path |-> o.file],
          compression |-> [enabled |-> extname(o.file) = GZ],
          encryption |-> IF encrypted
                         THEN [enabled |-> TRUE, key |-> o.key]
                         ELSE [enabled |-> FALSE, key |-> Undefined] ]

getLocalFileSourceOptions(o) ==
    LET encrypted == extname(o.file) = ENC
        file == IF encrypted THEN parseName(o.file) ELSE o.file
        compressed == extname(file) = GZ
    IN  [ file |-> [path |-> o.file],
          compression |-> [enabled |-> compressed],
          encryption |-> IF encrypted
                         THEN [enabled |-> TRUE, key |-> o.key]
                         ELSE [enabled |-> FALSE, key |-> Undefined] ]

\* ------------------------------------------------------------------- state

VARIABLES
    opts,                \* the argument of the command
    screened,            \* verdicts of the rules on records put to them directly
    pc,                  \* position of the command's main flow
    sourceOptions,       \* result of getLocalFileSourceOptions, {} before
    destinationOptions,  \* options of the destination provider, {} before
    engineOptions,       \* options of the engine, {} before
    engine,              \* state of the transfer engine
    events,              \* lifecycle events published on engine.progress.stream
    results,             \* per-run counts kept by the engine
    applied,             \* records handed to the destination provider
    store,               \* records the destination wrote to the live store
    handler,             \* state of each progress.on callback
    transferExitCode,    \* {} while undefined, else {0} or {1}
    writes,              \* number of assignments to transferExitCode (history)
    statusSetAt,         \* clock value of the last assignment (history)
    now,                 \* Date.now() - startTime; 0 until waitForExitCode runs
    wakeAt,              \* when the pending setTimeout of the wait loop fires
    exitCode,            \* {} while the process runs, else the code of process.exit
    exitVia              \* which process.exit call ended the process

vars == <<opts, screened, pc, sourceOptions, destinationOptions, engineOptions, engine,
          events, results, applied, store, handler, transferExitCode, writes,
          statusSetAt, now, wakeAt, exitCode, exitVia>>

configVars == <<sourceOptions, destinationOptions, engineOptions>>
engineVars == <<engine, events, results, applied, store>>
handlerVars == <<handler, transferExitCode, writes, statusSetAt>>
clockVars == <<now, wakeAt>>
exitVars == <<exitCode, exitVia>>

Exited == exitCode # {}

\* --------------------------------------------------------------- arguments

Keys == {Undefined, "secret"}
\* a strategy option: absent, the empty string, or a strategy name
StrategyInputs == {Undefined, "", "custom"}
ExcludeInputs == {{}, {"api::article"}}

PlainFile == <<"x">>
GzEncFile == <<"x">> \o GZ \o ENC
EncFile == <<"x">> \o ENC

\* a stem followed by up to three of the two recognized suffixes
StackedPaths ==
    {<<"x">> \o a \o b \o c : a \in {<<>>, ENC, GZ}, b \in {<<>>, ENC, GZ}, c \in {<<>>, ENC, GZ}}

ObjectOpts(file, key, exclude, vs, ss, cs) ==
    [ isObject |-> TRUE, file |-> file, key |-> key, exclude |-> exclude,
      versionStrategy |-> vs, schemaStrategy |-> ss, conflictStrategy |-> cs ]

\* what Commander hands over when the arguments could not be parsed
NotAnObject ==
    [ isObject |-> FALSE, file |-> <<>>, key |-> Undefined, exclude |-> {},
      versionStrategy |-> Undefined, schemaStrategy |-> Undefined,
      conflictStrategy |-> Undefined ]

\* the arguments of the runs that are followed to the end
RunOpts ==
    { NotAnObject,
      ObjectOpts(PlainFile, Undefined, {}, Undefined, Undefined, Undefined),
      ObjectOpts(GzEncFile, "secret", {"api::article"}, "custom", "custom", "custom"),
      ObjectOpts(EncFile, Undefined, {}, Undefined, Undefined, Undefined) }

\* the arguments on which the configuration steps alone are explored
ConfigOpts ==
    { ObjectOpts(f, k, {}, Undefined, Undefined, Undefined) :
        f \in Paths \cup StackedPaths, k \in Keys }
    \cup { ObjectOpts(PlainFile, Undefined, x, vs, ss, cs) :
             x \in ExcludeInputs, vs \in StrategyInputs,
             ss \in StrategyInputs, cs \in StrategyInputs }
    \cup { NotAnObject }

InitWith(o) ==
    /\ opts = o
    /\ screened = {}
    /\ pc = "validate"
    /\ sourceOptions = {}
    /\ destinationOptions = {}
    /\ engineOptions = {}
    /\ engine = "none"
    /\ events = <<>>
    /\ results = [read |-> 0, filteredOut |-> 0, applied |-> 0]
    /\ applied = {}
    /\ store = {}
    /\ handler = [start |-> "idle", finish |-> "idle", error |-> "idle"]
    /\ transferExitCode = {}
    /\ writes = 0
    /\ statusSetAt = 0
    /\ now = 0
    /\ wakeAt = 0
    /\ exitCode = {}
    /\ exitVia = "none"

Init == \E o \in RunOpts : InitWith(o)

InitConfig == \E o \in ConfigOpts : InitWith(o)

\* process.exit(code) reached through the call named via
ProcessExit(code, via) ==
    /\ exitCode' = {code}
    /\ exitVia' = via
    /\ pc' = "exited"

\* ------------------------------------------------------------ configuration

\* a validation that logs the error and goes on
ValidateArgsContinues ==
    /\ pc = "validate"
    /\ pc' = "sourceOptions"
    /\ UNCHANGED <<opts, screened, configVars, engineVars, handlerVars, clockVars, exitVars>>

\* if (!isObject(opts)) { logger.error(...); process.exit(1); }
ValidateArgs ==
    /\ pc = "validate"
    /\ IF opts.isObject
       THEN pc' = "sourceOptions" /\ UNCHANGED exitVars
       ELSE ProcessExit(1, "args")
    /\ UNCHANGED <<opts, screened, configVars, engineVars, handlerVars, clockVars>>

\* const sourceOptions = getLocalFileSourceOptions(opts);
GetSourceOptions ==
    /\ pc = "sourceOptions"
    /\ sourceOptions' = {getLocalFileSourceOptions(opts)}
    /\ pc' = "createSource"
    /\ UNCHANGED <<opts, screened, destinationOptions, engineOptions, engineVars,
                   handlerVars, clockVars, exitVars>>

\* The source provider refuses encrypted archives without a key.
SourceProviderRejects(so) == so.encryption.enabled /\ so.encryption.key = Undefined

\* const source = createLocalFileSourceProvider(sourceOptions); a refusal is
\* thrown outside the try block, so the command's promise rejects.
CreateSource ==
    /\ pc = "createSource"
    /\ \E so \in sourceOptions :
         pc' = IF SourceProviderRejects(so) THEN "rejected" ELSE "createEngine"
    /\ UNCHANGED <<opts, screened, configVars, engineVars, handlerVars, clockVars, exitVars>>

\* destinationOptions whose restore excludes a list wider than the rules' list
DestinationOptionsExcludesAll(o) ==
    [ strategy |-> IF o.conflictStrategy \in {Undefined, ""}
                   THEN DEFAULT_CONFLICT_STRATEGY ELSE o.conflictStrategy,
      restore |-> [entities |-> [exclude |-> Types]] ]

\* destinationOptions whose restore excludes nothing
DestinationOptionsNoExclusion(o) ==
    [ strategy |-> IF o.conflictStrategy \in {Undefined, ""}
                   THEN DEFAULT_CONFLICT_STRATEGY ELSE o.conflictStrategy,
      restore |-> [entities |-> [exclude |-> {}]] ]

\* destinationOptions.strategy and destinationOptions.restore
DestinationOptions(o) ==
    [ strategy |-> IF o.conflictStrategy \in {Undefined, ""}
                   THEN DEFAULT_CONFLICT_STRATEGY ELSE o.conflictStrategy,
      restore |-> [entities |-> [exclude |-> DEFAULT_IGNORED_CONTENT_TYPES]] ]

\* rules.entities[0].filter
entityFilter(entity) == entity.type \notin DEFAULT_IGNORED_CONTENT_TYPES

\* rules.links[0].filter with || in place of &&
linkFilterEitherEndpoint(link) ==
    \/ link.left.type \notin DEFAULT_IGNORED_CONTENT_TYPES
    \/ link.right.type \notin DEFAULT_IGNORED_CONTENT_TYPES

\* rules.links[0].filter testing the left endpoint only
linkFilterLeftOnly(link) == link.left.type \notin DEFAULT_IGNORED_CONTENT_TYPES

\* rules.links[0].filter
linkFilter(link) ==
    /\ link.left.type \notin DEFAULT_IGNORED_CONTENT_TYPES
    /\ link.right.type \notin DEFAULT_IGNORED_CONTENT_TYPES

\* engineOptions falling back to the schema default for the version strategy
EngineOptionsSchemaDefaultForVersion(o) ==
    [ versionStrategy |-> IF o.versionStrategy \in {Undefined, ""}
                          THEN DEFAULT_SCHEMA_STRATEGY ELSE o.versionStrategy,
      schemaStrategy |-> IF o.schemaStrategy \in {Undefined, ""}
                         THEN DEFAULT_SCHEMA_STRATEGY ELSE o.schemaStrategy,
      exclude |-> o.exclude ]

\* engineOptions without its rules, which are the two filters above
EngineOptions(o) ==
    [ versionStrategy |-> IF o.versionStrategy \in {Undefined, ""}
                          THEN DEFAULT_VERSION_STRATEGY ELSE o.versionStrategy,
      schemaStrategy |-> IF o.schemaStrategy \in {Undefined, ""}
                         THEN DEFAULT_SCHEMA_STRATEGY ELSE o.schemaStrategy,
      exclude |-> o.exclude ]

\* Load the Strapi instance, create the destination provider and the engine,
\* and register the three progress callbacks.
CreateEngine ==
    /\ pc = "createEngine"
    /\ destinationOptions' = {DestinationOptions(opts)}
    /\ engineOptions' = {EngineOptions(opts)}
    /\ engine' = "idle"
    /\ pc' = "transfer"
    /\ UNCHANGED <<opts, screened, sourceOptions, events, results, applied, store,
                   handlerVars, clockVars, exitVars>>

NextConfig == ValidateArgs \/ GetSourceOptions \/ CreateSource \/ CreateEngine

SpecConfig == InitConfig /\ [][NextConfig]_vars

\* ----------------------------------------------------------------- records

LinkKinds == {"oneToOne", "manyToMany"}

Entities == {[stage |-> "entities", type |-> t] : t \in Types}

Links ==
    {[stage |-> "links", kind |-> k, left |-> [type |-> l], right |-> [type |-> r]] :
        k \in LinkKinds, l \in Types, r \in Types}

Records == Entities \cup Links

\* the content types a record refers to
TypesOf(r) == IF r.stage = "entities" THEN {r.type} ELSE {r.left.type, r.right.type}

\* ------------------------------------------------- progress.on(...) handlers
\* A handler is called when its event is published and runs up to its await;
\* the rest of its body runs when the telemetry send has settled.

\* a start handler that records success without awaiting the send
OnTransferStartRecordsFirst ==
    /\ handler' = [handler EXCEPT !.start = "sending"]
    /\ transferExitCode' = {0}
    /\ writes' = writes + 1
    /\ statusSetAt' = now

\* progress.on('transfer::start', ...) up to the await
OnTransferStart ==
    /\ handler' = [handler EXCEPT !.start = "sending"]
    /\ UNCHANGED <<transferExitCode, writes, statusSetAt>>

\* a finish handler that records success without awaiting the send
OnTransferFinishRecordsFirst ==
    /\ handler' = [handler EXCEPT !.finish = "sending"]
    /\ transferExitCode' = {0}
    /\ writes' = writes + 1
    /\ statusSetAt' = now

\* progress.on('transfer::finish', ...) up to the await
OnTransferFinish ==
    /\ handler' = [handler EXCEPT !.finish = "sending"]
    /\ UNCHANGED <<transferExitCode, writes, statusSetAt>>

\* an error handler that records the failure without awaiting the send
OnTransferErrorRecordsFirst ==
    /\ handler' = [handler EXCEPT !.error = "sending"]
    /\ transferExitCode' = {1}
    /\ writes' = writes + 1
    /\ statusSetAt' = now

\* progress.on('transfer::error', ...) up to the await
OnTransferError ==
    /\ handler' = [handler EXCEPT !.error = "sending"]
    /\ UNCHANGED <<transferExitCode, writes, statusSetAt>>

\* transferExitCode = code
SetTransferExitCode(code) ==
    /\ transferExitCode' = {code}
    /\ writes' = writes + 1
    /\ statusSetAt' = now

\* a start handler that records success as the terminal handlers do
StartHandlerResumeRecordsSuccess ==
    /\ ~Exited
    /\ handler.start = "sending"
    /\ handler' = [handler EXCEPT !.start = "done"]
    /\ SetTransferExitCode(0)
    /\ UNCHANGED <<opts, screened, pc, configVars, engineVars, clockVars, exitVars>>

\* didDEITSProcessStart has been sent: the start handler returns
StartHandlerResume ==
    /\ ~Exited
    /\ handler.start = "sending"
    /\ handler' = [handler EXCEPT !.start = "done"]
    /\ UNCHANGED <<transferExitCode, writes, statusSetAt>>
    /\ UNCHANGED <<opts, screened, pc, configVars, engineVars, clockVars, exitVars>>

\* a finish handler that records failure
FinishHandlerResumeRecordsFailure ==
    /\ ~Exited
    /\ handler.finish = "sending"
    /\ handler' = [handler EXCEPT !.finish = "done"]
    /\ SetTransferExitCode(1)
    /\ UNCHANGED <<opts, screened, pc, configVars, engineVars, clockVars, exitVars>>

\* didDEITSProcessFinish has been sent: transferExitCode = 0
FinishHandlerResume ==
    /\ ~Exited
    /\ handler.finish = "sending"
    /\ handler' = [handler EXCEPT !.finish = "done"]
    /\ SetTransferExitCode(0)
    /\ UNCHANGED <<opts, screened, pc, configVars, engineVars, clockVars, exitVars>>

\* an error handler that records success
ErrorHandlerResumeRecordsSuccess ==
    /\ ~Exited
    /\ handler.error = "sending"
    /\ handler' = [handler EXCEPT !.error = "done"]
    /\ SetTransferExitCode(0)
    /\ UNCHANGED <<opts, screened, pc, configVars, engineVars, clockVars, exitVars>>

\* didDEITSProcessFail has been sent: transferExitCode = 1
ErrorHandlerResume ==
    /\ ~Exited
    /\ handler.error = "sending"
    /\ handler' = [handler EXCEPT !.error = "done"]
    /\ SetTransferExitCode(1)
    /\ UNCHANGED <<opts, screened, pc, configVars, engineVars, clockVars, exitVars>>

\* ------------------------------------------------------------------ engine
\* createTransferEngine(source, destination, engineOptions) and its transfer().

\* The engine keeps a record when every rule of its stage accepts it and none
\* of its types is excluded by engineOptions.exclude.
EngineKeeps(r, eo) ==
    /\ IF r.stage = "entities" THEN entityFilter(r) ELSE linkFilter(r)
    /\ TypesOf(r) \cap eo.exclude = {}

\* The destination skips a record that refers to a type of its own exclusion.
DestinationSkips(r, do) == TypesOf(r) \cap do.restore.entities.exclude # {}

\* DestinationProvider.apply(record)
DestinationApply(r, do) ==
    store' = IF DestinationSkips(r, do) THEN store ELSE store \cup {r}

\* an engine that opens every run with a progress event after transfer::start
EngineStartPublishesProgress ==
    /\ pc = "transfer"
    /\ engine = "idle"
    /\ engine' = "running"
    /\ events' = <<"transfer::start", "transfer::progress">>
    /\ OnTransferStart
    /\ UNCHANGED <<opts, screened, pc, configVars, results, applied, store,
                   clockVars, exitVars>>

\* transfer() enters Running and publishes transfer::start
EngineStart ==
    /\ pc = "transfer"
    /\ engine = "idle"
    /\ engine' = "running"
    /\ events' = Append(events, "transfer::start")
    /\ OnTransferStart
    /\ UNCHANGED <<opts, screened, pc, configVars, results, applied, store, clockVars, exitVars>>

\* One record goes from the source through the rules to the destination, and
\* the new counts are published as transfer::progress.
EngineTransferRecord ==
    /\ pc = "transfer"
    /\ engine = "running"
    /\ results.read < MaxRecords
    /\ \E r \in Records, eo \in engineOptions, do \in destinationOptions :
         IF EngineKeeps(r, eo)
         THEN /\ applied' = applied \cup {r}
              /\ DestinationApply(r, do)
              /\ results' = [results EXCEPT !.read = @ + 1,
                               !.applied = @ + (IF DestinationSkips(r, do) THEN 0 ELSE 1)]
         ELSE /\ results' = [results EXCEPT !.read = @ + 1, !.filteredOut = @ + 1]
              /\ UNCHANGED <<applied, store>>
    /\ events' = Append(events, "transfer::progress")
    /\ UNCHANGED <<opts, screened, pc, configVars, engine, handlerVars, clockVars, exitVars>>

\* an engine that publishes transfer::finish and keeps running
EngineFinishKeepsRunning ==
    /\ pc = "transfer"
    /\ engine = "running"
    /\ Len(events) <= MaxRecords + 2
    /\ events' = Append(events, "transfer::finish")
    /\ OnTransferFinish
    /\ UNCHANGED <<opts, screened, pc, configVars, engine, results, applied, store,
                   clockVars, exitVars>>

\* The source is exhausted: transfer::finish is published and transfer() resolves.
EngineFinish ==
    /\ pc = "transfer"
    /\ engine = "running"
    /\ engine' = "finished"
    /\ events' = Append(events, "transfer::finish")
    /\ OnTransferFinish
    /\ pc' = "afterTransfer"
    /\ UNCHANGED <<opts, screened, configVars, results, applied, store, clockVars, exitVars>>

\* A source, compatibility or apply failure: transfer::error is published and
\* transfer() resolves.
EngineError ==
    /\ pc = "transfer"
    /\ engine = "running"
    /\ engine' = "failed"
    /\ events' = Append(events, "transfer::error")
    /\ OnTransferError
    /\ pc' = "afterTransfer"
    /\ UNCHANGED <<opts, screened, configVars, results, applied, store, clockVars, exitVars>>

\* As EngineError, but the failure is also thrown to the caller of transfer().
EngineErrorThrown ==
    /\ pc = "transfer"
    /\ engine = "running"
    /\ engine' = "failed"
    /\ events' = Append(events, "transfer::error")
    /\ OnTransferError
    /\ pc' = "catch"
    /\ UNCHANGED <<opts, screened, configVars, results, applied, store, clockVars, exitVars>>

\* A fault of the orchestration itself escapes transfer() before any terminal
\* event is published.
EngineFault ==
    /\ pc = "transfer"
    /\ engine = "running"
    /\ engine' = "failed"
    /\ pc' = "catch"
    /\ UNCHANGED <<opts, screened, configVars, events, results, applied, store,
                   handlerVars, clockVars, exitVars>>

\* ---------------------------------------------------------------- main flow

\* a catch block that hands over to the exit-code wait instead of exiting
CatchWaitsForExitCode ==
    /\ pc = "catch"
    /\ pc' = "wait"
    /\ now' = 0
    /\ wakeAt' = 0
    /\ UNCHANGED <<opts, screened, configVars, engineVars, handlerVars, exitVars>>

\* catch (e) { logger.error(...); process.exit(1); }
Catch ==
    /\ pc = "catch"
    /\ ProcessExit(1, "catch")
    /\ UNCHANGED <<opts, screened, configVars, engineVars, handlerVars, clockVars>>

\* The table is printed and waitForExitCode(5000) is called:
\* const startTime = Date.now();
StartWaitForExitCode ==
    /\ pc = "afterTransfer"
    /\ pc' = "wait"
    /\ now' = 0
    /\ wakeAt' = 0
    /\ UNCHANGED <<opts, screened, configVars, engineVars, handlerVars, exitVars>>

\* while (true)
LoopConditionAlways == TRUE

\* while (Date.now() - startTime < maxWait)
LoopCondition == now < MaxWait

\* if (transferExitCode !== undefined) { process.exit(transferExitCode); }
PollExit ==
    /\ pc = "wait"
    /\ now = wakeAt
    /\ LoopCondition
    /\ transferExitCode # {}
    /\ \E code \in transferExitCode : ProcessExit(code, "status")
    /\ UNCHANGED <<opts, screened, configVars, engineVars, handlerVars, clockVars>>

\* await new Promise((resolve) => { setTimeout(resolve, 50); });
PollSleep ==
    /\ pc = "wait"
    /\ now = wakeAt
    /\ LoopCondition
    /\ transferExitCode = {}
    /\ wakeAt' = now + PollInterval
    /\ UNCHANGED <<opts, screened, pc, configVars, engineVars, handlerVars, now, exitVars>>

\* the loop is left: process.exit(0);
PollTimeout ==
    /\ pc = "wait"
    /\ now = wakeAt
    /\ ~LoopCondition
    /\ ProcessExit(0, "timeout")
    /\ UNCHANGED <<opts, screened, configVars, engineVars, handlerVars, clockVars>>

\* Time passes while the loop sleeps; the timer fires when it is due.
Tick ==
    /\ pc = "wait"
    /\ now < wakeAt
    /\ now' = IF now + TickMs < wakeAt THEN now + TickMs ELSE wakeAt
    /\ UNCHANGED <<opts, screened, pc, configVars, engineVars, handlerVars, wakeAt, exitVars>>

Next ==
    \/ ValidateArgs
    \/ GetSourceOptions
    \/ CreateSource
    \/ CreateEngine
    \/ EngineStart
    \/ EngineTransferRecord
    \/ EngineFinish
    \/ EngineError
    \/ EngineErrorThrown
    \/ EngineFault
    \/ StartHandlerResume
    \/ FinishHandlerResume
    \/ ErrorHandlerResume
    \/ Catch
    \/ StartWaitForExitCode
    \/ PollExit
    \/ PollSleep
    \/ PollTimeout
    \/ Tick

Spec == Init /\ [][Next]_vars

\* The destination provider on its own: once created, it is handed records
\* that no engine rule has screened.
DestinationReceives ==
    /\ pc = "transfer"
    /\ engine = "idle"
    /\ Cardinality(applied) < MaxRecords
    /\ \E r \in Records, do \in destinationOptions :
         /\ applied' = applied \cup {r}
         /\ DestinationApply(r, do)
    /\ UNCHANGED <<opts, screened, pc, configVars, engine, events, results, handlerVars,
                   clockVars, exitVars>>

NextDestination ==
    ValidateArgs \/ GetSourceOptions \/ CreateSource \/ CreateEngine \/ DestinationReceives

SpecDestination == Init /\ [][NextDestination]_vars

\* The rules of engineOptions on their own: once configured, the filter of a
\* record's stage is evaluated on it and the verdict is kept.
ScreenRecord ==
    /\ pc = "transfer"
    /\ engine = "idle"
    /\ Cardinality(screened) < MaxRecords
    /\ \E r \in Records :
         screened' = screened \cup
             {[ record |-> r,
                kept |-> IF r.stage = "entities" THEN entityFilter(r) ELSE linkFilter(r) ]}
    /\ UNCHANGED <<opts, pc, configVars, engineVars, handlerVars, clockVars, exitVars>>

NextRules ==
    ValidateArgs \/ GetSourceOptions \/ CreateSource \/ CreateEngine \/ ScreenRecord

SpecRules == Init /\ [][NextRules]_vars

\* ================================================================== claims

Published(e) == \E i \in 1..Len(events) : events[i] = e

TerminalEvents == {"transfer::finish", "transfer::error"}

NumTerminal == Cardinality({i \in 1..Len(events) : events[i] \in TerminalEvents})

\* the last segment b of a path ends in suffix and has a stem before it
HasSuffix(b, suffix) ==
    /\ Len(b) > Len(suffix)
    /\ SubSeq(b, Len(b) - Len(suffix) + 1, Len(b)) = suffix

\* the path itself ends in suffix
EndsIn(p, suffix) ==
    /\ Len(p) >= Len(suffix)
    /\ SubSeq(p, Len(p) - Len(suffix) + 1, Len(p)) = suffix

\* the types excluded from a run: the rules' list and the caller's
ExcludedTypes == DEFAULT_IGNORED_CONTENT_TYPES \cup opts.exclude

\* C1: no entity of an excluded type, and no link with an endpoint of an
\* excluded type, is ever handed to the destination provider's apply step.
C1_FilterSoundness == \A r \in applied : TypesOf(r) \cap ExcludedTypes = {}

C1_Witness ==
    /\ opts.exclude = {}
    /\ results.filteredOut > 0
    /\ \E r \in applied : r.stage = "links"

\* C2: the destination never writes a record of a protected type to the live
\* store, whatever records it is handed and whatever the caller excluded.
C2_ProtectedNeverStored ==
    \A r \in store : TypesOf(r) \cap DEFAULT_IGNORED_CONTENT_TYPES = {}

C2_Witness ==
    /\ opts.exclude = {}
    /\ \E r \in applied : TypesOf(r) \cap DEFAULT_IGNORED_CONTENT_TYPES # {}
    /\ store # {}

\* C3 as claimed: whenever transfer::error was published, the process exits
\* with code 1.
C3_ErrorAlwaysExitsOne ==
    (Exited /\ Published("transfer::error")) => exitCode = {1}

\* C3 as amended: after transfer::error the process exits with code 1 when the
\* top-level catch or a poll that sees the recorded status ends it, and with
\* code 0 only when the wait loop runs to its deadline.
C3_ErrorExitCode ==
    (Exited /\ Published("transfer::error")) =>
        \/ exitVia \in {"status", "catch"} /\ exitCode = {1}
        \/ exitVia = "timeout" /\ exitCode = {0} /\ now >= MaxWait

C3_Witness ==
    /\ Published("transfer::error")
    /\ exitVia = "status"
    /\ exitCode = {1}

\* C4: when transferExitCode is set before the deadline, waitForExitCode exits
\* with the recorded value; it exits with the default 0 only when the value is
\* still unset at the deadline.
C4_RecordedValueReturned ==
    (exitVia \in {"status", "timeout"} /\ transferExitCode # {} /\ statusSetAt < MaxWait)
        => exitCode = transferExitCode

WaitStep == PollExit \/ PollSleep \/ PollTimeout \/ Tick

\* C6: waitForExitCode always terminates: while it waits less than maxWait
\* plus one polling interval has elapsed and it can take a further step, and
\* it ends the process within that time whether or not the status is ever set.
C6_WaitIsBounded ==
    /\ pc = "wait" => (now < MaxWait + PollInterval /\ ENABLED WaitStep)
    /\ exitVia \in {"status", "timeout"} => now < MaxWait + PollInterval

C6_Witness ==
    /\ exitVia = "timeout"
    /\ transferExitCode = {}
    /\ handler.finish = "sending"

\* C7: transferExitCode is assigned at most once in a run, and once set its
\* value never changes.
C7_WrittenAtMostOnce ==
    /\ writes \in {0, 1}
    /\ writes = 0 <=> transferExitCode = {}
    /\ Cardinality(transferExitCode) <= 1

C7_Witness ==
    /\ writes = 1
    /\ handler.start = "done"
    /\ Exited

\* Start first and once, a terminal event only in the last place
OrderedEvents ==
    /\ \A i \in 1..Len(events) : (events[i] = "transfer::start") <=> (i = 1)
    /\ \A i \in 1..Len(events) : events[i] \in TerminalEvents => i = Len(events)

\* transfer() has been called
TransferCalled == engine \in {"running", "finished", "failed"}

\* transfer() has resolved
TransferResolved == pc \in {"afterTransfer", "wait"} \/ exitVia \in {"status", "timeout"}

\* C8 as claimed: in every run Start is published once and first, and exactly
\* one terminal event is published, with nothing after it.
C8_ExactlyOneTerminalPerRun ==
    (Exited /\ TransferCalled) => (OrderedEvents /\ NumTerminal = 1)

\* C8 as amended: Start is published once and first, at most one terminal
\* event is published and nothing follows it, and exactly one terminal event
\* has been published when transfer() resolves.
C8_EventOrder ==
    /\ OrderedEvents
    /\ TransferCalled => Len(events) >= 1
    /\ NumTerminal <= 1
    /\ TransferResolved => NumTerminal = 1

C8_Witness ==
    /\ Exited
    /\ Len(events) = MaxRecords + 2
    /\ events[Len(events)] = "transfer::finish"

\* C9 as claimed: the stages follow from how the path ends.
C9_StagesFromPathEnding ==
    \A so \in sourceOptions :
        LET p == opts.file
        IN  /\ EndsIn(p, GZ \o ENC) =>
                 (so.encryption.enabled /\ so.compression.enabled)
            /\ (EndsIn(p, GZ) /\ ~EndsIn(p, ENC)) =>
                 (~so.encryption.enabled /\ so.compression.enabled)
            /\ (EndsIn(p, ENC) /\ ~EndsIn(p, GZ \o ENC)) =>
                 (so.encryption.enabled /\ ~so.compression.enabled)
            /\ (~EndsIn(p, ENC) /\ ~EndsIn(p, GZ)) =>
                 (~so.encryption.enabled /\ ~so.compression.enabled)

\* C9 as amended: the stages follow from the last segment of the path, trailing
\* separators ignored, and a suffix counts only after a non-empty stem:
\* decryption iff the segment is <stem>.enc, decompression iff the segment,
\* without that .enc, is <stem>.gz.
C9_StagesFromLastSegment ==
    \A so \in sourceOptions :
        LET b == Basename(opts.file)
            encrypted == HasSuffix(b, ENC)
            inner == IF encrypted THEN SubSeq(b, 1, Len(b) - Len(ENC)) ELSE b
        IN  /\ so.encryption.enabled <=> encrypted
            /\ so.compression.enabled <=> HasSuffix(inner, GZ)

C9_Witness ==
    \E so \in sourceOptions :
        /\ so.encryption.enabled
        /\ so.compression.enabled
        /\ so.encryption.key # Undefined

\* C10: no source options with encryption enabled and an absent key are ever
\* produced.
C10_NoKeylessEncryption ==
    \A so \in sourceOptions :
        ~(so.encryption.enabled /\ so.encryption.key = Undefined)

\* C11: when a failure escapes transfer() into the top-level catch, the next
\* step of the main flow is process.exit(1): the exit-code wait is never
\* started, whatever the handlers are doing and whatever transferExitCode holds.
C11_CatchExitsAtOnce ==
    [][pc = "catch" =>
          \/ pc' = "catch"
          \/ /\ pc' = "exited"
             /\ exitCode' = {1}
             /\ exitVia' = "catch"
             /\ UNCHANGED <<clockVars, handlerVars>>]_vars

C11_Witness ==
    /\ exitVia = "catch"
    /\ exitCode = {1}
    /\ handler.start = "sending"
    /\ transferExitCode # {}
    /\ wakeAt = 0

\* C12: a handler has begun only if its event has been published, and
\* transferExitCode is unset as long as no terminal event has been published.
C12_HandlersFollowEvents ==
    /\ handler.start # "idle" => Published("transfer::start")
    /\ handler.finish # "idle" => Published("transfer::finish")
    /\ handler.error # "idle" => Published("transfer::error")
    /\ NumTerminal = 0 => transferExitCode = {}

C12_Witness ==
    /\ Published("transfer::finish")
    /\ handler.finish = "sending"
    /\ handler.start = "done"
    /\ transferExitCode = {}

\* a strategy option that names a strategy
IsStrategyName(x) == x # Undefined /\ x # ""

\* C13: for each of the version, schema and conflict strategies, the run uses
\* the corresponding named default when the caller gives none, and the caller's
\* strategy name unchanged when one is given.
C13_StrategyDefaults ==
    \A eo \in engineOptions, do \in destinationOptions :
        /\ eo.versionStrategy =
             IF IsStrategyName(opts.versionStrategy)
             THEN opts.versionStrategy ELSE "DEFAULT_VERSION_STRATEGY"
        /\ eo.schemaStrategy =
             IF IsStrategyName(opts.schemaStrategy)
             THEN opts.schemaStrategy ELSE "DEFAULT_SCHEMA_STRATEGY"
        /\ do.strategy =
             IF IsStrategyName(opts.conflictStrategy)
             THEN opts.conflictStrategy ELSE "DEFAULT_CONFLICT_STRATEGY"

C13_Witness ==
    \E eo \in engineOptions, do \in destinationOptions :
        /\ opts.versionStrategy = Undefined
        /\ eo.versionStrategy = "DEFAULT_VERSION_STRATEGY"
        /\ opts.schemaStrategy = "custom"
        /\ eo.schemaStrategy = "custom"
        /\ opts.conflictStrategy = Undefined
        /\ do.strategy = "DEFAULT_CONFLICT_STRATEGY"

\* C14: the link filter keeps a link iff neither endpoint's type is excluded,
\* whatever the link's kind and whatever was evaluated before it; the entity
\* filter keeps an entity iff its type is not excluded.
C14_FilterVerdicts ==
    \A v \in screened :
        /\ v.kept <=> (\A t \in TypesOf(v.record) : t \notin DEFAULT_IGNORED_CONTENT_TYPES)
        /\ \A w \in screened :
             (TypesOf(w.record) = TypesOf(v.record)) => (w.kept = v.kept)

C14_Witness ==
    /\ \E v \in screened :
         /\ v.record.stage = "links"
         /\ v.record.left.type = "api::article"
         /\ v.record.right.type = "admin::role"
         /\ ~v.kept
    /\ \E w \in screened :
         /\ w.record.stage = "links"
         /\ w.kept

ZeroCounts == [read |-> 0, filteredOut |-> 0, applied |-> 0]

\* transfer() is over
TransferOver == engine \in {"finished", "failed"}

NothingCreated ==
    /\ sourceOptions = {}
    /\ destinationOptions = {}
    /\ engineOptions = {}
    /\ engine = "none"
    /\ events = <<>>
    /\ \A h \in DOMAIN handler : handler[h] = "idle"
    /\ transferExitCode = {}

\* C16: when the options argument is not an object, the command exits with
\* code 1 before any provider, engine or handler is created, and no lifecycle
\* event is published.
C16_InvalidArgsExitFirst ==
    ~opts.isObject =>
        /\ NothingCreated
        /\ pc \in {"validate", "exited"}
        /\ pc = "exited" => (exitCode = {1} /\ exitVia = "args")

C16_Witness ==
    /\ ~opts.isObject
    /\ exitVia = "args"
    /\ exitCode = {1}
    /\ NothingCreated

\* 1 when the handler of event h has run to its end, else 0
Completed(h) == IF handler[h] = "done" THEN 1 ELSE 0

\* C17: transferExitCode is assigned by the finish and error handlers only,
\* each after its own telemetry send has completed: the assignments made so
\* far are those of the completed terminal handlers, and a recorded status
\* implies that the handler of its terminal event has completed.
C17_OnlyTerminalHandlersWrite ==
    /\ writes = Completed("finish") + Completed("error")
    /\ transferExitCode = {0} => handler.finish = "done"
    /\ transferExitCode = {1} => handler.error = "done"
    /\ transferExitCode \subseteq {0, 1}

C17_Witness ==
    /\ pc = "wait"
    /\ transferExitCode = {0}
    /\ handler.finish = "done"
    /\ handler.start = "done"
    /\ now > 0

C19_DestinationKeepsWhatEngineKept ==
    /\ \A do \in destinationOptions :
         do.restore.entities.exclude = DEFAULT_IGNORED_CONTENT_TYPES
    /\ \A r \in applied : r \in store
    /\ results.applied + results.filteredOut = results.read

C19_Witness ==
    /\ \E r \in applied : r.stage = "entities" /\ r \in store
    /\ results.applied = MaxRecords

\* C20: the path handed to the source provider is the original opts.file,
\* whatever suffixes were examined; .enc is honoured only as the outermost
\* suffix (name.enc.gz is compressed, not encrypted) and only one .enc is
\* peeled (name.gz.enc.enc is encrypted, not compressed).
C20_PathUnaltered ==
    \A so \in sourceOptions :
        LET b == Basename(opts.file)
        IN  /\ so.file.path = opts.file
            /\ HasSuffix(b, ENC \o GZ) =>
                 (~so.encryption.enabled /\ so.compression.enabled)
            /\ HasSuffix(b, GZ \o ENC \o ENC) =>
                 (so.encryption.enabled /\ ~so.compression.enabled)
            /\ HasSuffix(b, GZ \o GZ) =>
                 (~so.encryption.enabled /\ so.compression.enabled)

C20_Witness ==
    \E so \in sourceOptions :
        /\ opts.file = <<"x">> \o GZ \o ENC \o ENC
        /\ so.file.path = opts.file
        /\ so.encryption.enabled
        /\ ~so.compression.enabled

====
